---- MODULE Spec2Model ----
(***************************************************************************)
(* bitrix24-sentry-notifier: the /sentry-webhook pipeline of app/main.py.  *)
(*                                                                         *)
(* A Python str is a sequence of one-character strings, so that lower(),   *)
(* strip(), split(","), f-string concatenation and the substring test "in" *)
(* are computed character by character.  A Python value is a record tagged *)
(* with its type: None, Str(s), Dict(m).                                   *)
(***************************************************************************)
EXTENDS Integers, Sequences, FiniteSets, TLC

VARIABLES
    environ,                \* os.environ when app.main is imported
    BITRIX24_WEBHOOK_URL,   \* module globals of app/main.py
    BITRIX24_DIALOG_ID,
    ALLOWED_ENVIRONMENTS,
    pc,                     \* position of each receive_sentry_webhook call
    data,                   \* its locals: data, bitrix_message, response
    bitrix_message,
    response,
    posts,                  \* the outbound POSTs each call has issued
    reply,                  \* the outbound server's answer to that POST
    inbound,                \* the HTTP response given to the inbound caller
    path,                   \* the phases each call went through
    sentry_payload,         \* a direct call of the transformer, as the unit
    result                  \* tests make it, and what it gave

vars == <<environ, BITRIX24_WEBHOOK_URL, BITRIX24_DIALOG_ID, ALLOWED_ENVIRONMENTS,
          pc, data, bitrix_message, response, posts, reply, inbound, path,
          sentry_payload, result>>

config == <<environ, BITRIX24_WEBHOOK_URL, BITRIX24_DIALOG_ID, ALLOWED_ENVIRONMENTS>>

handler == <<pc, data, bitrix_message, response, posts, reply, inbound, path>>

\* ------------------------------------------------------------ bounds

\* Number of inbound /sentry-webhook requests in flight together.
NumRequests == 2

Requests == 1..NumRequests

\* ------------------------------------------------------------ Python values

None == [t |-> "NoneType"]

Str(s) == [t |-> "str", v |-> s]

Dict(m) == [t |-> "dict", v |-> m]

EmptyMap == [k \in {} |-> None]

\* dict.get(key, default) on the mapping of a dict value.
Get(d, key, default) == IF key \in DOMAIN d.v THEN d.v[key] ELSE default

\* str(x) as an f-string field renders it: a str as itself, None as "None".
Format(x) == IF x.t = "str" THEN x.v ELSE <<"N", "o", "n", "e">>

\* A fault: the falsy values are not told apart, so "if not x" never fires.
AlwaysTruthy(x) == TRUE

\* Truth value of a Python object: None, "" and {} are false.
Truthy(x) ==
    CASE x.t = "NoneType" -> FALSE
      [] x.t = "str" -> x.v # <<>>
      [] x.t = "dict" -> DOMAIN x.v # {}

\* ------------------------------------------------------------ str methods

UpperCase == <<"A", "B", "C", "D", "E", "F", "G", "H", "I", "J", "K", "L", "M", "N", "O", "P", "Q", "R", "S", "T", "U", "V", "W", "X", "Y", "Z">>

LowerCase == <<"a", "b", "c", "d", "e", "f", "g", "h", "i", "j", "k", "l", "m", "n", "o", "p", "q", "r", "s", "t", "u", "v", "w", "x", "y", "z">>

Whitespace == {" ", "\t", "\n", "\r", "\f"}

LowerChar(c) ==
    IF \E i \in 1..Len(UpperCase) : UpperCase[i] = c
    THEN LowerCase[CHOOSE i \in 1..Len(UpperCase) : UpperCase[i] = c]
    ELSE c

\* str.lower()
lower(s) == [i \in 1..Len(s) |-> LowerChar(s[i])]

\* str.strip(): without its leading and trailing whitespace.
strip(s) ==
    LET keep == {i \in 1..Len(s) : s[i] \notin Whitespace}
    IN  IF keep = {} THEN <<>>
        ELSE LET first == CHOOSE i \in keep : \A j \in keep : i <= j
                 last == CHOOSE i \in keep : \A j \in keep : j <= i
             IN  SubSeq(s, first, last)

\* A fault: empty pieces dropped, so that "" splits into the empty list.
RECURSIVE splitDroppingEmpty(_, _)
splitDroppingEmpty(s, sep) ==
    IF s = <<>> THEN <<>>
    ELSE IF \E i \in 1..Len(s) : s[i] = sep
    THEN LET i == CHOOSE i \in 1..Len(s) :
                      s[i] = sep /\ \A j \in 1..(i - 1) : s[j] # sep
         IN  (IF i = 1 THEN <<>> ELSE <<SubSeq(s, 1, i - 1)>>)
             \o splitDroppingEmpty(SubSeq(s, i + 1, Len(s)), sep)
    ELSE <<s>>

\* str.split(sep) for a one-character separator: never an empty list.
RECURSIVE split(_, _)
split(s, sep) ==
    IF \E i \in 1..Len(s) : s[i] = sep
    THEN LET i == CHOOSE i \in 1..Len(s) :
                      s[i] = sep /\ \A j \in 1..(i - 1) : s[j] # sep
         IN  <<SubSeq(s, 1, i - 1)>> \o split(SubSeq(s, i + 1, Len(s)), sep)
    ELSE <<s>>

\* "x in list"
InList(x, list) == \E i \in 1..Len(list) : list[i] = x

\* "sub in s" for two strs
Contains(s, sub) ==
    \E i \in 0..(Len(s) - Len(sub)) : SubSeq(s, i + 1, i + Len(sub)) = sub

\* os.getenv(name, default) at import
getenv(env, name, default) == IF name \in DOMAIN env THEN Str(env[name]) ELSE default

\* ------------------------------------------------------------ configuration

DEFAULT_ALLOWED_ENVIRONMENTS == <<"p", "r", "o", "d", "u", "c", "t", "i", "o", "n", ",", "p", "r", "o", "d">>

\* The settings of ALLOWED_ENVIRONMENTS the model starts from.
AllowedSettings ==
    { <<"p", "r", "o", "d", "u", "c", "t", "i", "o", "n", ",", "p", "r", "o", "d">>, <<>>, <<"P", "r", "o", "d", "u", "c", "t", "i", "o", "n">>, <<"p", "r", "o", "d", "u", "c", "t", "i", "o", "n", ",", " ", "p", "r", "o", "d">>, <<"s", "t", "a", "g", "i", "n", "g">> }

DialogSettings == { <<"c", "h", "a", "t", "7">> }

\* The environments the process can be started in: BITRIX24_WEBHOOK_URL and
\* SENTRY_DSN are set (else the import raises ValueError), the others optional.
Environs ==
    { [k \in {"BITRIX24_WEBHOOK_URL", "SENTRY_DSN"} \cup opt |->
          CASE k = "BITRIX24_WEBHOOK_URL" -> <<"M", "O", "C", "K", "_", "U", "R", "L">>
            [] k = "SENTRY_DSN" -> <<"M", "O", "C", "K", "_", "S", "E", "N", "T", "R", "Y", "_", "D", "S", "N">>
            [] k = "ALLOWED_ENVIRONMENTS" -> a
            [] k = "BITRIX24_DIALOG_ID" -> d] :
        opt \in SUBSET {"ALLOWED_ENVIRONMENTS", "BITRIX24_DIALOG_ID"},
        a \in AllowedSettings, d \in DialogSettings }

\* Module level of app/main.py: the globals read from the environment.
LoadConfig(env) ==
    /\ environ = env
    /\ BITRIX24_WEBHOOK_URL = getenv(env, "BITRIX24_WEBHOOK_URL", None)
    /\ BITRIX24_DIALOG_ID = getenv(env, "BITRIX24_DIALOG_ID", None)
    /\ ALLOWED_ENVIRONMENTS =
           split(getenv(env, "ALLOWED_ENVIRONMENTS", Str(DEFAULT_ALLOWED_ENVIRONMENTS)).v, ",")

\* ------------------------------------------------------------ transformer

Return(x) == [kind |-> "return", value |-> x]

Raise(e) == [kind |-> "raise", exc |-> e]

\* The MESSAGE f-string.
MessageText(payload, event) ==
    <<"*", "I", "D", "*", ":", " ">> \o Format(Get(payload, "id", None)) \o <<"\n">>
    \o <<"*", "P", "r", "o", "j", "e", "c", "t", "*", ":", " ">> \o Format(Get(payload, "project_name", None)) \o <<"\n">>
    \o <<"*", "E", "n", "v", "i", "r", "o", "n", "m", "e", "n", "t", "*", ":", " ">> \o Format(Get(event, "environment", None)) \o <<"\n">>
    \o <<"*", "L", "e", "v", "e", "l", "*", ":", " ">> \o Format(Get(payload, "level", None)) \o <<"\n">>
    \o <<"*", "C", "u", "l", "p", "r", "i", "t", "*", ":", " ">> \o Format(Get(payload, "culprit", None)) \o <<"\n">>
    \o <<"*", "M", "e", "s", "s", "a", "g", "e", "*", ":", " ">> \o Format(Get(payload, "message", None)) \o <<"\n">>
    \o <<"*", "P", "l", "a", "t", "f", "o", "r", "m", "*", ":", " ">> \o Format(Get(event, "platform", Str(<<"u", "n", "k", "n", "o", "w", "n">>))) \o <<"\n">>
    \o <<"*", "U", "R", "L", "*", ":", " ">> \o Format(Get(payload, "url", None))

\* The test "environment not in ALLOWED_ENVIRONMENTS".
NotAllowed(environment) == ~InList(environment, ALLOWED_ENVIRONMENTS)

\* The dict the transformer returns.
BitrixMessage(payload, event) ==
    Dict([k \in {"DIALOG_ID", "MESSAGE"} |->
             IF k = "DIALOG_ID" THEN BITRIX24_DIALOG_ID
             ELSE Str(MessageText(payload, event))])

\* transform_sentry_webhook_to_google_chat(sentry_payload): what it returns or
\* raises.  event.get on a non-dict and .lower() on a non-str raise
\* AttributeError.
transform_sentry_webhook_to_google_chat(payload) ==
    LET event == Get(payload, "event", Dict(EmptyMap))
    IN  IF event.t # "dict" THEN Raise("AttributeError")
        ELSE LET raw == Get(event, "environment", Str(<<>>))
             IN  IF raw.t # "str" THEN Raise("AttributeError")
                 ELSE LET environment == strip(lower(raw.v))
                      IN  IF NotAllowed(environment) THEN Return(None)
                          ELSE Return(BitrixMessage(payload, event))

\* ------------------------------------------------------------ payloads

ScalarKeys == {"id", "project_name", "level", "culprit", "message", "url"}

\* VALID_PAYLOAD of tests/test_stateless.py, field by field.
ValidValue(k) ==
    CASE k = "id" -> <<"1", "2", "3", "4", "5">>
      [] k = "project_name" -> <<"t", "e", "s", "t", "-", "p", "r", "o", "j", "e", "c", "t">>
      [] k = "level" -> <<"e", "r", "r", "o", "r">>
      [] k = "culprit" -> <<"t", "e", "s", "t", ".", "v", "i", "e", "w", "s">>
      [] k = "message" -> <<"T", "e", "s", "t", " ", "e", "r", "r", "o", "r">>
      [] k = "url" -> <<"h", "t", "t", "p", ":", "/", "/", "t", "e", "s", "t", ".", "c", "o", "m">>

Absent == [t |-> "absent"]

\* Values of event.environment: null, and strs in several cases and paddings.
EnvironmentValues ==
    {None} \cup {Str(s) : s \in { <<"p", "r", "o", "d", "u", "c", "t", "i", "o", "n">>, <<"P", "r", "o", "d", "u", "c", "t", "i", "o", "n">>, <<" ", "P", "R", "O", "D", " ">>,
                                  <<"p", "r", "o", "d">>, <<"d", "e", "v", "e", "l", "o", "p", "m", "e", "n", "t">>, <<>> }}

PlatformValues == {Str(<<"p", "y", "t", "h", "o", "n">>)}

EventDict(env, platform) ==
    Dict([k \in (IF env = Absent THEN {} ELSE {"environment"})
                \cup (IF platform = Absent THEN {} ELSE {"platform"}) |->
             IF k = "environment" THEN env ELSE platform])

EventValues ==
    {None} \cup {EventDict(e, p) : e \in EnvironmentValues \cup {Absent},
                                   p \in PlatformValues \cup {Absent}}

\* A JSON object with the scalar fields `present` and the event `event`.
Payload(present, event) ==
    Dict([k \in present \cup (IF event = Absent THEN {} ELSE {"event"}) |->
             IF k = "event" THEN event ELSE Str(ValidValue(k))])

\* Every payload built from the fields above, each present or missing.
Payloads ==
    {Payload(present, event) : present \in SUBSET ScalarKeys,
                               event \in EventValues \cup {Absent}}

VALID_PAYLOAD == Payload(ScalarKeys, EventDict(Str(<<"p", "r", "o", "d", "u", "c", "t", "i", "o", "n">>), Str(<<"p", "y", "t", "h", "o", "n">>)))

NotCalled == [kind |-> "none"]

\* A local variable not assigned yet.
Unbound == [kind |-> "unbound"]

\* ------------------------------------------------------------ direct calls

\* A unit test's call transform_sentry_webhook_to_google_chat(payload).
CallTransform ==
    /\ result = NotCalled
    /\ result' = transform_sentry_webhook_to_google_chat(sentry_payload)
    /\ UNCHANGED <<config, handler, sentry_payload>>

HandlerIdle ==
    /\ pc = [r \in Requests |-> "idle"]
    /\ data = [r \in Requests |-> Unbound]
    /\ bitrix_message = [r \in Requests |-> Unbound]
    /\ response = [r \in Requests |-> Unbound]
    /\ posts = [r \in Requests |-> <<>>]
    /\ reply = [r \in Requests |-> [kind |-> "none"]]
    /\ inbound = [r \in Requests |-> [kind |-> "none"]]
    /\ path = [r \in Requests |-> <<>>]

InitTransform ==
    /\ \E env \in Environs : LoadConfig(env)
    /\ HandlerIdle
    /\ sentry_payload \in Payloads
    /\ result = NotCalled

NextTransform == CallTransform

SpecTransform == InitTransform /\ [][NextTransform]_vars

\* ------------------------------------------------------------ outbound server

HTTP_200_OK == 200

HTTP_500_INTERNAL_SERVER_ERROR == 500

\* What the destination can answer to a POST, and the transport failing.
OutboundResponses ==
    { [kind |-> "response", status_code |-> 200, text |-> <<"t", "r", "u", "e">>],
      [kind |-> "response", status_code |-> 201, text |-> <<"c", "r", "e", "a", "t", "e", "d">>],
      [kind |-> "response", status_code |-> 500, text |-> <<"s", "e", "r", "v", "e", "r", " ", "e", "r", "r", "o", "r">>] }

RequestError == [kind |-> "RequestError"]

\* ------------------------------------------------------------ inbound responses

\* A dict returned by the route: FastAPI sends it as JSON with status 200.
JSONResponse(key, text) ==
    [kind |-> "response", status |-> HTTP_200_OK, body |-> [k \in {key} |-> text]]

SkipResponse ==
    JSONResponse("message", <<"E", "n", "v", "i", "r", "o", "n", "m", "e", "n", "t", " ", "n", "o", "t", " ", "a", "l", "l", "o", "w", "e", "d", ".", " ", "S", "k", "i", "p", "p", "i", "n", "g", " ", "n", "o", "t", "i", "f", "i", "c", "a", "t", "i", "o", "n", ".">>)

SuccessResponse ==
    JSONResponse("message", <<"W", "e", "b", "h", "o", "o", "k", " ", "r", "e", "c", "e", "i", "v", "e", "d", " ", "a", "n", "d", " ", "f", "o", "r", "w", "a", "r", "d", "e", "d", " ", "t", "o", " ", "B", "i", "t", "r", "i", "x", "2", "4", " ", "s", "u", "c", "c", "e", "s", "s", "f", "u", "l", "l", "y">>)

FailureResponse(text) ==
    JSONResponse("error", <<"F", "a", "i", "l", "e", "d", " ", "t", "o", " ", "s", "e", "n", "d", " ", "m", "e", "s", "s", "a", "g", "e", " ", "t", "o", " ", "B", "i", "t", "r", "i", "x", "2", "4", ":", " ">> \o text)

\* An exception leaving the route: the framework answers 500, no JSON body.
ServerError ==
    [kind |-> "response", status |-> HTTP_500_INTERNAL_SERVER_ERROR, body |-> EmptyMap]

\* A fault: any 2xx status taken for success.
IsOkAnySuccess(status_code) == status_code \in 200..299

\* The test "response.status_code == 200".
IsOk(status_code) == status_code = HTTP_200_OK

\* The POST of lines 93-97.
OutboundPost(message) ==
    [url |-> BITRIX24_WEBHOOK_URL, json |-> message,
     headers |-> [k \in {"Content-Type"} |-> <<"a", "p", "p", "l", "i", "c", "a", "t", "i", "o", "n", "/", "j", "s", "o", "n", ";", " ", "c", "h", "a", "r", "s", "e", "t", "=", "U", "T", "F", "-", "8">>]]

\* The payloads the inbound callers send.
WebhookPayloads ==
    { VALID_PAYLOAD,
      Payload(ScalarKeys, EventDict(Str(<<"d", "e", "v", "e", "l", "o", "p", "m", "e", "n", "t">>), Absent)),
      Payload(ScalarKeys, EventDict(Str(<<" ", "P", "R", "O", "D", " ">>), Str(<<"p", "y", "t", "h", "o", "n">>))),
      Payload({"level"}, EventDict(Str(<<"p", "r", "o", "d">>), Absent)),
      Payload({}, Absent),
      Payload(ScalarKeys, None) }

\* ------------------------------------------------------------ /sentry-webhook

\* data = await request.json()
Receive(r, payload) ==
    /\ pc[r] = "idle"
    /\ data' = [data EXCEPT ![r] = payload]
    /\ pc' = [pc EXCEPT ![r] = "transform"]
    /\ path' = [path EXCEPT ![r] = Append(@, "Received")]
    /\ UNCHANGED <<config, bitrix_message, response, posts, reply, inbound,
                   sentry_payload, result>>

\* Lines 87-89: the transformer, and the early return when it gave nothing.
Transform(r) ==
    /\ pc[r] = "transform"
    /\ LET t == transform_sentry_webhook_to_google_chat(data[r])
       IN  IF t.kind = "raise"
           THEN /\ inbound' = [inbound EXCEPT ![r] = ServerError]
                /\ pc' = [pc EXCEPT ![r] = "done"]
                /\ UNCHANGED <<bitrix_message, path>>
           ELSE /\ bitrix_message' = [bitrix_message EXCEPT ![r] = t.value]
                /\ IF ~Truthy(t.value)
                   THEN /\ inbound' = [inbound EXCEPT ![r] = SkipResponse]
                        /\ pc' = [pc EXCEPT ![r] = "done"]
                        /\ path' = [path EXCEPT ![r] =
                                        @ \o <<"Transformed", "Skipped", "ResponseSent">>]
                   ELSE /\ pc' = [pc EXCEPT ![r] = "post"]
                        /\ path' = [path EXCEPT ![r] = Append(@, "Transformed")]
                        /\ UNCHANGED inbound
    /\ UNCHANGED <<config, data, response, posts, reply, sentry_payload, result>>

\* Lines 92-97: client.post is called and the coroutine waits for the answer.
Post(r) ==
    /\ pc[r] = "post"
    /\ posts' = [posts EXCEPT ![r] = Append(@, OutboundPost(bitrix_message[r]))]
    /\ pc' = [pc EXCEPT ![r] = "await"]
    /\ path' = [path EXCEPT ![r] = Append(@, "DispatchAttempted")]
    /\ UNCHANGED <<config, data, bitrix_message, response, reply, inbound,
                   sentry_payload, result>>

\* The destination answers the POST of request r.
ServerResponds(r, answer) ==
    /\ pc[r] = "await"
    /\ reply[r].kind = "none"
    /\ reply' = [reply EXCEPT ![r] = answer]
    /\ UNCHANGED <<config, pc, data, bitrix_message, response, posts, inbound, path,
                   sentry_payload, result>>

\* The POST of request r fails in transport: refused, DNS, timeout.
TransportFails(r) ==
    /\ pc[r] = "await"
    /\ reply[r].kind = "none"
    /\ reply' = [reply EXCEPT ![r] = RequestError]
    /\ UNCHANGED <<config, pc, data, bitrix_message, response, posts, inbound, path,
                   sentry_payload, result>>

\* A fault: `response` kept in one place shared by all the calls.
ResumeResponseShared(r) ==
    /\ pc[r] = "await"
    /\ reply[r].kind = "response"
    /\ response' = [q \in Requests |-> reply[r]]
    /\ pc' = [pc EXCEPT ![r] = "check"]
    /\ UNCHANGED <<config, data, bitrix_message, posts, reply, inbound, path,
                   sentry_payload, result>>

\* Line 93: the await returns and `response` is bound.
ResumeResponse(r) ==
    /\ pc[r] = "await"
    /\ reply[r].kind = "response"
    /\ response' = [response EXCEPT ![r] = reply[r]]
    /\ pc' = [pc EXCEPT ![r] = "check"]
    /\ UNCHANGED <<config, data, bitrix_message, posts, reply, inbound, path,
                   sentry_payload, result>>

\* A fault: the POST is tried again after a transport failure.
ExceptRequestErrorRetry(r) ==
    /\ pc[r] = "await"
    /\ reply[r].kind = "RequestError"
    /\ pc' = [pc EXCEPT ![r] = "post"]
    /\ reply' = [reply EXCEPT ![r] = [kind |-> "none"]]
    /\ UNCHANGED <<config, data, bitrix_message, response, posts, inbound, path,
                   sentry_payload, result>>

\* Lines 98-102: httpx.RequestError is caught and the failure logged (the
\* Failed outcome); `response` stays unbound and control falls through to
\* line 104.
ExceptRequestError(r) ==
    /\ pc[r] = "await"
    /\ reply[r].kind = "RequestError"
    /\ pc' = [pc EXCEPT ![r] = "check"]
    /\ path' = [path EXCEPT ![r] = Append(@, "Failed")]
    /\ UNCHANGED <<config, data, bitrix_message, response, posts, reply, inbound,
                   sentry_payload, result>>

\* Lines 104-109: reading the unbound `response` raises UnboundLocalError,
\* which leaves the route.
StatusCheck(r) ==
    /\ pc[r] = "check"
    /\ pc' = [pc EXCEPT ![r] = "done"]
    /\ IF response[r] = Unbound
       THEN /\ inbound' = [inbound EXCEPT ![r] = ServerError]
            /\ UNCHANGED path
       ELSE IF IsOk(response[r].status_code)
       THEN /\ inbound' = [inbound EXCEPT ![r] = SuccessResponse]
            /\ path' = [path EXCEPT ![r] = @ \o <<"Delivered", "ResponseSent">>]
       ELSE /\ inbound' = [inbound EXCEPT ![r] = FailureResponse(response[r].text)]
            /\ path' = [path EXCEPT ![r] = @ \o <<"Failed", "ResponseSent">>]
    /\ UNCHANGED <<config, data, bitrix_message, response, posts, reply,
                   sentry_payload, result>>

\* receive_sentry_webhook from the first line to the last, for one request
\* that nothing else runs beside.
HandledAlone(payload, answer) ==
    LET t == transform_sentry_webhook_to_google_chat(payload)
    IN  IF t.kind = "raise" THEN ServerError
        ELSE IF ~Truthy(t.value) THEN SkipResponse
        ELSE IF answer.kind = "RequestError" THEN ServerError
        ELSE IF answer.status_code = HTTP_200_OK THEN SuccessResponse
        ELSE FailureResponse(answer.text)

\* The service as deployed: with a dialog id.
ServiceEnvirons == {env \in Environs : "BITRIX24_DIALOG_ID" \in DOMAIN env}

Init ==
    /\ \E env \in ServiceEnvirons : LoadConfig(env)
    /\ HandlerIdle
    /\ sentry_payload = Unbound
    /\ result = NotCalled

Next ==
    \E r \in Requests :
        \/ \E payload \in WebhookPayloads : Receive(r, payload)
        \/ Transform(r)
        \/ Post(r)
        \/ \E answer \in OutboundResponses : ServerResponds(r, answer)
        \/ TransportFails(r)
        \/ ResumeResponse(r)
        \/ ExceptRequestError(r)
        \/ StatusCheck(r)

Spec == Init /\ [][Next]_vars

\* ------------------------------------------------------------ properties

StartsWith(s, prefix) == Len(prefix) <= Len(s) /\ SubSeq(s, 1, Len(prefix)) = prefix

EndsWith(s, suffix) ==
    Len(suffix) <= Len(s) /\ SubSeq(s, Len(s) - Len(suffix) + 1, Len(s)) = suffix

\* The transformer returned None (Skip) to request r.
Skips(r) == bitrix_message[r] = None

\* The transformer returned a message to request r.
Forwards(r) == bitrix_message[r] \notin {Unbound, None}

\* C1: a request whose outbound POST failed in transport ends in the Failed
\* outcome with a response built by the handler: status 200 and an "error"
\* body, no exception leaving the route.
C1_TransportFailureIsHandled ==
    \A r \in Requests :
        (pc[r] = "done" /\ reply[r] = RequestError) =>
            /\ inbound[r].status = HTTP_200_OK
            /\ DOMAIN inbound[r].body = {"error"}

\* C2: a request whose transform returns Skip issues no outbound POST and is
\* answered at once with HTTP 200 and a {"message": ...} body containing
\* "Skipping notification".
C2_SkipIssuesNoPost ==
    \A r \in Requests :
        Skips(r) =>
            /\ posts[r] = <<>>
            /\ reply[r].kind = "none"
            /\ pc[r] = "done"
            /\ inbound[r].status = HTTP_200_OK
            /\ DOMAIN inbound[r].body = {"message"}
            /\ Contains(inbound[r].body["message"], <<"S", "k", "i", "p", "p", "i", "n", "g", " ", "n", "o", "t", "i", "f", "i", "c", "a", "t", "i", "o", "n">>)

C2_Witness ==
    \E r, q \in Requests :
        /\ Skips(r) /\ pc[r] = "done"
        /\ Forwards(q) /\ posts[q] # <<>>

\* The event's environment as a str, when the payload has one.
HasEnvironment(payload) ==
    /\ "event" \in DOMAIN payload.v
    /\ payload.v["event"].t = "dict"
    /\ "environment" \in DOMAIN payload.v["event"].v
    /\ payload.v["event"].v["environment"].t = "str"

\* s equals an entry of the list, both lowercased and trimmed.
MatchesEntry(s, list) ==
    \E i \in 1..Len(list) : strip(lower(list[i])) = strip(lower(s))

\* C3: for every payload and allow-list, transform returns a message exactly
\* when the event's environment matches an allow-list entry, case-insensitively
\* and ignoring surrounding whitespace, and returns Skip (None) otherwise.
C3_MessageIffEnvironmentMatches ==
    result # NotCalled =>
        IF /\ HasEnvironment(sentry_payload)
           /\ MatchesEntry(sentry_payload.v["event"].v["environment"].v,
                           ALLOWED_ENVIRONMENTS)
        THEN result.kind = "return" /\ result.value.t = "dict"
        ELSE result = Return(None)

\* The payload lacks one of id, project_name, level, culprit, message, url,
\* event, or its event or event.environment is null.
MissesField(payload) ==
    \/ (ScalarKeys \cup {"event"}) \ DOMAIN payload.v # {}
    \/ payload.v["event"].t # "dict"
    \/ ~HasEnvironment(payload)

\* C4: for a payload missing fields, transform never raises and produces a
\* message in which the absent fields are rendered as placeholders.
C4_MissingFieldsNeverRaise ==
    (result # NotCalled /\ MissesField(sentry_payload)) =>
        /\ result.kind = "return"
        /\ result.value.t = "dict"
        /\ \A k \in {"level", "url"} \ DOMAIN sentry_payload.v :
               Contains(result.value.v["MESSAGE"].v,
                        (IF k = "level" THEN <<"*", "L", "e", "v", "e", "l", "*", ":", " ">> ELSE <<"*", "U", "R", "L", "*", ":", " ">>) \o <<"N", "o", "n", "e">>)

\* ALLOWED_ENVIRONMENTS is not set, or set to the empty string.
AllowListUnsetOrEmpty ==
    \/ "ALLOWED_ENVIRONMENTS" \notin DOMAIN environ
    \/ environ["ALLOWED_ENVIRONMENTS"] = <<>>

\* The payload's event or its environment is present and null.
HasNull(payload) ==
    /\ "event" \in DOMAIN payload.v
    /\ \/ payload.v["event"].t # "dict"
       \/ /\ "environment" \in DOMAIN payload.v["event"].v
          /\ payload.v["event"].v["environment"].t # "str"

\* The event's environment lowercased and trimmed, "" when there is none.
NormalizedEnvironment(payload) ==
    IF HasEnvironment(payload)
    THEN strip(lower(payload.v["event"].v["environment"].v))
    ELSE <<>>

\* C5 as stated: when the allow-list is empty or not configured, transform
\* never returns Skip.
C5_NoSkipWithoutAllowList ==
    (result # NotCalled /\ AllowListUnsetOrEmpty) => result # Return(None)

\* C5 as amended: the allow-list is never empty (not configured it is the
\* default production,prod, set empty it is the one entry ""); Skip is
\* returned exactly when the event, if present, is an object, its
\* environment, if present, a string, and the normalized environment is not
\* an entry of the list; a message is built when it is an entry.
C5_SkipIffNotAnEntry ==
    result # NotCalled =>
        /\ Len(ALLOWED_ENVIRONMENTS) > 0
        /\ result = Return(None) <=>
               /\ ~HasNull(sentry_payload)
               /\ \A i \in 1..Len(ALLOWED_ENVIRONMENTS) :
                      ALLOWED_ENVIRONMENTS[i] # NormalizedEnvironment(sentry_payload)
        /\ (~HasNull(sentry_payload) /\ result # Return(None)) =>
               result.kind = "return" /\ result.value.t = "dict"

C5_Witness ==
    /\ result = Return(None)
    /\ "ALLOWED_ENVIRONMENTS" \in DOMAIN environ
    /\ environ["ALLOWED_ENVIRONMENTS"] = <<>>
    /\ HasEnvironment(sentry_payload)

\* C6: a non-skipped request that received an outbound response is answered
\* with HTTP 200 and exactly one key: "message" ending in "successfully" when
\* the outbound status is 200, else "error" with "Failed to send message ..."
\* followed by the outbound body text.
C6_ResponseFollowsOutboundStatus ==
    \A r \in Requests :
        (pc[r] = "done" /\ reply[r].kind = "response") =>
            /\ inbound[r].status = HTTP_200_OK
            /\ IF reply[r].status_code = 200
               THEN /\ DOMAIN inbound[r].body = {"message"}
                    /\ EndsWith(inbound[r].body["message"], <<"s", "u", "c", "c", "e", "s", "s", "f", "u", "l", "l", "y">>)
               ELSE /\ DOMAIN inbound[r].body = {"error"}
                    /\ StartsWith(inbound[r].body["error"], <<"F", "a", "i", "l", "e", "d", " ", "t", "o", " ", "s", "e", "n", "d", " ", "m", "e", "s", "s", "a", "g", "e">>)
                    /\ EndsWith(inbound[r].body["error"], reply[r].text)

C6_Witness ==
    \E r, q \in Requests :
        /\ pc[r] = "done" /\ reply[r].kind = "response" /\ reply[r].status_code = 200
        /\ pc[q] = "done" /\ reply[q].kind = "response" /\ reply[q].status_code # 200

\* C7: a request issues at most one outbound POST, to the destination: one
\* when its transform gives a message, whatever the outbound result, and none
\* when it skips.
C7_AtMostOnePost ==
    \A r \in Requests :
        /\ Len(posts[r]) <= 1
        /\ \A i \in 1..Len(posts[r]) : posts[r][i].url = BITRIX24_WEBHOOK_URL
        /\ (Forwards(r) /\ pc[r] # "post") => Len(posts[r]) = 1
        /\ Skips(r) => Len(posts[r]) = 0

C7_Witness ==
    \E r, q \in Requests :
        /\ pc[r] = "done" /\ reply[r] = RequestError /\ Len(posts[r]) = 1
        /\ pc[q] = "done" /\ reply[q].kind = "response" /\ Len(posts[q]) = 1

\* The paths of the request state machine.
RequestPaths ==
    { <<"Received", "Transformed", "Skipped", "ResponseSent">>,
      <<"Received", "Transformed", "DispatchAttempted", "Delivered", "ResponseSent">>,
      <<"Received", "Transformed", "DispatchAttempted", "Failed", "ResponseSent">> }

\* C8: a request that has ended went Received, Transformed, then Skipped or
\* DispatchAttempted and Delivered or Failed, then ResponseSent, and its
\* response is HTTP 200.
C8_EveryRequestEndsOnAPath ==
    \A r \in Requests :
        pc[r] = "done" =>
            /\ path[r] \in RequestPaths
            /\ inbound[r].status = HTTP_200_OK

\* C9: for an allowed environment, transform returns a mapping whose `text`
\* entry contains the lines "*Level*: <level>" and "*URL*: <url>".
C9_TextEntryHoldsTheLines ==
    (result.kind = "return" /\ result.value.t = "dict") =>
        /\ "text" \in DOMAIN result.value.v
        /\ Contains(result.value.v["text"].v,
                    <<"*", "L", "e", "v", "e", "l", "*", ":", " ">> \o Format(Get(sentry_payload, "level", None)))
        /\ Contains(result.value.v["text"].v,
                    <<"*", "U", "R", "L", "*", ":", " ">> \o Format(Get(sentry_payload, "url", None)))

\* Every request that has ended got the response it would get alone.
AnsweredAsAlone ==
    \A r \in Requests :
        pc[r] = "done" => inbound[r] = HandledAlone(data[r], reply[r])

\* C10: under any interleaving, a request's response is the one its own
\* payload and its own outbound result give when it is handled alone, and
\* handling requests never changes the shared configuration.
C10_RequestsAreIndependent ==
    /\ []AnsweredAsAlone
    /\ [][config' = config]_vars

C10_Witness ==
    \E r, q \in Requests :
        /\ pc[r] = "done" /\ inbound[r] = SuccessResponse
        /\ pc[q] = "await" /\ reply[q].kind = "response" /\ reply[q].status_code = 500

====
